---- MODULE Spec2Model ----
(***************************************************************************)
(* Model of widgets/fit.py: the Fit plotter's "fit" action (actionFit),    *)
(* the evaluator the solver calls back (evalfunc) and the renderer of the  *)
(* fitted expression (generateOutputExpr).                                 *)
(*                                                                         *)
(* Numbers.  Python floats are modelled as exact rationals [n, d] with     *)
(* d > 0 in lowest terms; not-a-number is the record with d = 0.  Dataset  *)
(* values and parameter values are integer-valued floats and are kept as   *)
(* integers.  Strings are sequences of one-character strings.              *)
(***************************************************************************)
EXTENDS Integers, Sequences, FiniteSets, TLC

\* ------------------------------------------------------------------ bounds
MaxLen == 2
MaxIter == 1

\* ------------------------------------------------------------- arithmetic
Abs(n) == IF n < 0 THEN -n ELSE n

RECURSIVE Gcd(_, _)
Gcd(a, b) == IF b = 0 THEN a ELSE Gcd(b, a % b)

\* the float n/d, d > 0
Rat(n, d) == LET g == Gcd(Abs(n), d) IN [n |-> n \div g, d |-> d \div g]

\* float of an integer-valued number
Flt(i) == [n |-> i, d |-> 1]

NaN == [n |-> 0, d |-> 0]

IsFinite(q) == q.d > 0

RatLess(p, q) == p.n * q.d < q.n * p.d

RatMul(p, q) == Rat(p.n * q.n, p.d * q.d)

\* N.sqrt on the floats the model meets: the exact root when there is one
RatSqrt(q) ==
  LET rn == CHOOSE r \in 0..q.n : r * r = q.n
      rd == CHOOSE r \in 1..q.d : r * r = q.d
  IN  Rat(rn, rd)

\* --------------------------------------------------------------- strings
Digit == <<"0", "1", "2", "3", "4", "5", "6", "7", "8", "9">>

LowerCase == {"a", "b", "c", "d", "e", "f", "g", "h", "i", "j", "k", "l", "m",
              "n", "o", "p", "q", "r", "s", "t", "u", "v", "w", "x", "y", "z"}

UpperCase == {"A", "B", "C", "D", "E", "F", "G", "H", "I", "J", "K", "L", "M",
              "N", "O", "P", "Q", "R", "S", "T", "U", "V", "W", "X", "Y", "Z"}

\* the class [A-Za-z0-9.] of generateOutputExpr's split pattern
IsTextChar(c) ==
  c \in LowerCase \cup UpperCase \cup {Digit[i] : i \in 1..10} \cup {"."}

\* character order of the names the model uses (ASCII order)
CharOrd(c) ==
  CASE c = "a" -> 97 [] c = "b" -> 98 [] c = "c" -> 99
    [] c = "x" -> 120 [] c = "y" -> 121 [] OTHER -> 0

\* Python's string comparison: lexicographic, a proper prefix sorts first
RECURSIVE StrLess(_, _)
StrLess(s, t) ==
  IF t = <<>> THEN FALSE
  ELSE IF s = <<>> THEN TRUE
  ELSE IF CharOrd(Head(s)) # CharOrd(Head(t))
       THEN CharOrd(Head(s)) < CharOrd(Head(t))
       ELSE StrLess(Tail(s), Tail(t))

RECURSIVE Digits(_)
Digits(n) ==
  IF n < 10 THEN <<Digit[n + 1]>>
  ELSE Digits(n \div 10) \o <<Digit[(n % 10) + 1]>>

\* str() of an integer-valued float: "2.0", "-1.0"
FloatStr(v) ==
  (IF v < 0 THEN <<"-">> ELSE <<>>) \o Digits(Abs(v)) \o <<".", "0">>

RECURSIVE Join(_)
Join(parts) == IF parts = <<>> THEN <<>> ELSE Head(parts) \o Join(Tail(parts))

\* ------------------------------------------------------------ containers
None == [some |-> FALSE, a |-> <<>>]

Some(arr) == [some |-> TRUE, a |-> arr]

\* the orders in which a dictionary may hand out its keys
Orders(S) ==
  {q \in [1..Cardinality(S) -> S] :
     \A i, j \in 1..Cardinality(S) : q[i] = q[j] => i = j}

RECURSIVE Insert(_, _)
Insert(sorted, e) ==
  IF sorted = <<>> THEN <<e>>
  ELSE IF StrLess(e, Head(sorted)) THEN <<e>> \o sorted
  ELSE <<Head(sorted)>> \o Insert(Tail(sorted), e)

\* sort, were the list left in the dictionary's order
unsorted(l) == l

\* list.sort() of a list of strings
RECURSIVE sort(_)
sort(l) == IF l = <<>> THEN <<>> ELSE Insert(sort(Tail(l)), Head(l))

\* indices of the true entries of a boolean array
nonzero(mask) == {i \in 1..Len(mask) : mask[i]}

RECURSIVE TakeFrom(_, _, _)
TakeFrom(arr, mask, i) ==
  IF i > Len(mask) THEN <<>>
  ELSE (IF mask[i] THEN <<arr[i]>> ELSE <<>>) \o TakeFrom(arr, mask, i + 1)

\* arr[mask] for a boolean array mask.  The array library either demands
\* equal shapes ("shape") or takes the elements at the mask's true
\* positions ("take"); in both an impossible selection raises.
MaskSemantics == {"shape", "take"}

MaskIndex(arr, mask, sem) ==
  IF Len(arr) = Len(mask)
    THEN [ok |-> TRUE, a |-> TakeFrom(arr, mask, 1)]
  ELSE IF sem = "take" /\ \A i \in nonzero(mask) : i <= Len(arr)
    THEN [ok |-> TRUE, a |-> TakeFrom(arr, mask, 1)]
  ELSE [ok |-> FALSE, a |-> <<>>]

InRangeMask(vals, range) ==
  [i \in 1..Len(vals) |-> vals[i] >= range[1] /\ vals[i] <= range[2]]

\* ------------------------------------------------- generateOutputExpr
\* re.split('([^A-Za-z0-9.])', s): text runs and the single characters
\* that separate them, in order (empty runs included)
RECURSIVE split(_, _)
split(s, cur) ==
  IF s = <<>> THEN <<cur>>
  ELSE IF IsTextChar(Head(s)) THEN split(Tail(s), Append(cur, Head(s)))
  ELSE <<cur, <<Head(s)>>>> \o split(Tail(s), <<>>)

FloatVal(v) == [isfloat |-> TRUE, v |-> v, s |-> <<>>]

TextVal(s) == [isfloat |-> FALSE, v |-> 0, s |-> s]

\* str() of a substitution value
str(pv) == IF pv.isfloat THEN FloatStr(pv.v) ELSE pv.s

\* ParamVals, were the two data names exchanged
ParamValsDependent(vals, var, xd, yd) ==
  LET key == IF var = <<"x">> THEN <<"x">> ELSE <<"y">>
      dat == IF var = <<"x">> THEN yd ELSE xd
  IN  [n \in DOMAIN vals \cup {key} |->
         IF n = key THEN TextVal(dat) ELSE FloatVal(vals[n])]

\* the substitution mapping: s.values.copy() plus the data name of the variable
ParamVals(vals, var, xd, yd) ==
  LET key == IF var = <<"x">> THEN <<"x">> ELSE <<"y">>
      dat == IF var = <<"x">> THEN xd ELSE yd
  IN  [n \in DOMAIN vals \cup {key} |->
         IF n = key THEN TextVal(dat) ELSE FloatVal(vals[n])]

generateOutputExpr(fn, pvals) ==
  LET parts == split(fn, <<>>)
  IN  Join([i \in 1..Len(parts) |->
              IF parts[i] \in DOMAIN pvals THEN str(pvals[parts[i]])
              ELSE parts[i]])

\* ------------------------------------------------------------ actionFit
Tiny == Rat(1, 100000000)

FivePercent == Rat(5, 100)

\* ErrorSynthesis, were the floor of 1e-8 left out
ErrorSynthesisNoFloor(ydata) ==
  IF ydata.serr.some
    THEN [yserr |-> [i \in 1..Len(ydata.serr.a) |-> Flt(ydata.serr.a[i])],
          warn |-> {}]
  ELSE IF ydata.perr.some /\ ydata.nerr.some
    THEN [yserr |-> [i \in 1..Len(ydata.perr.a) |->
                      RatSqrt(RatMul(Rat(1, 2),
                                     Flt(ydata.perr.a[i] * ydata.perr.a[i]
                                         + ydata.nerr.a[i] * ydata.nerr.a[i])))],
          warn |-> {"warning: symmetrising errors"}]
  ELSE [yserr |-> [i \in 1..Len(ydata.data) |->
                    RatMul(Flt(ydata.data[i]), FivePercent)],
        warn |-> {"warning: assuming 5% errors"}]

\* lines 130-138: the working error array and the warning printed
ErrorSynthesis(ydata) ==
  IF ydata.serr.some
    THEN [yserr |-> [i \in 1..Len(ydata.serr.a) |-> Flt(ydata.serr.a[i])],
          warn |-> {}]
  ELSE IF ydata.perr.some /\ ydata.nerr.some
    THEN [yserr |-> [i \in 1..Len(ydata.perr.a) |->
                      RatSqrt(RatMul(Rat(1, 2),
                                     Flt(ydata.perr.a[i] * ydata.perr.a[i]
                                         + ydata.nerr.a[i] * ydata.nerr.a[i])))],
          warn |-> {"warning: symmetrising errors"}]
  ELSE [yserr |-> [i \in 1..Len(ydata.data) |->
                    LET e == RatMul(Flt(ydata.data[i]), FivePercent)
                    IN  IF RatLess(e, Tiny) THEN Tiny ELSE e],
        warn |-> {"warning: assuming 5% errors"}]

\* lines 140-154: [ok, xvals, yvals, yserr]; ok is FALSE when indexing raised
RangeRestrict(var, xv, yv, ye, ranges, sem) ==
  LET mask == IF var = <<"x">> THEN InRangeMask(xv, ranges.x)
              ELSE InRangeMask(yv, ranges.y)
      mx == MaskIndex(xv, mask, sem)
      my == MaskIndex(yv, mask, sem)
      me == MaskIndex(ye, mask, sem)
  IN  [ok |-> mx.ok /\ my.ok /\ me.ok,
       xvals |-> IF mx.ok THEN mx.a ELSE xv,
       yvals |-> IF mx.ok /\ my.ok THEN my.a ELSE yv,
       yserr |-> IF mx.ok /\ my.ok /\ me.ok THEN me.a ELSE ye]

\* ErrorCheck, were the last comparison >= instead of >
ErrorCheckStrict(np, xv, yv, ye) ==
  IF Len(xv) = 0 THEN "error: no data values"
  ELSE IF Len(xv) # Len(yv) \/ Len(xv) # Len(ye)
    THEN "error: data not equal in length"
  ELSE IF np >= Len(xv) THEN "error: no degrees of freedom"
  ELSE ""

\* lines 156-165: the error written to stderr, or "" when the checks pass
ErrorCheck(np, xv, yv, ye) ==
  IF Len(xv) = 0 THEN "error: no data values"
  ELSE IF Len(xv) # Len(yv) \/ Len(xv) # Len(ye)
    THEN "error: data not equal in length"
  ELSE IF np > Len(xv) THEN "error: no degrees of freedom"
  ELSE ""

Min(a, b) == IF a < b THEN a ELSE b

\* lines 172-176: dict built from zip(names, retn)
WriteBack(nm, rv) ==
  LET k == Min(Len(nm), Len(rv))
  IN  [n \in {nm[i] : i \in 1..k} |->
         rv[CHOOSE i \in 1..k : nm[i] = n /\ \A j \in (i + 1)..k : nm[j] # n]]

\* ReducedChi2, were the division left out
ReducedChi2NoDivide(c, d) == IF d <= 0 THEN Flt(-1) ELSE Flt(c)

\* lines 181-185
ReducedChi2(c, d) == IF d <= 0 THEN Flt(-1) ELSE Rat(c, d)

NoDofInfo(d) == IF d <= 0 THEN {"info: no degrees of freedom in fit"} ELSE {}

\* ---------------------------------------------------------------- eval
FnDefault == <<"a", " ", "+", " ", "b", "*", "x">>

FnY == <<"a", "*", "y">>

FnRatio == <<"x", "/", "x">>

FnList == <<"[", "1", "/", "v", " ", "f", "o", "r", " ", "v", " ",
            "i", "n", " ", "x", "]">>

Raised == [raised |-> TRUE, out |-> <<>>]

Value(arr) == [raised |-> FALSE, out |-> arr]

\* eval(s.function, env) for the expressions above: an unbound name and a
\* Python-level float division by zero raise; the array library's own
\* element-wise 0/0 gives not-a-number at that element
Eval(fn, e) ==
  LET has(n) == <<n>> \in DOMAIN e
      x == e[<<"x">>]
      y == e[<<"y">>]
      a == e[<<"a">>]
      b == e[<<"b">>]
  IN  CASE fn = FnDefault ->
             IF has("a") /\ has("b") /\ has("x")
               THEN Value([i \in 1..Len(x) |-> Flt(a + b * x[i])])
               ELSE Raised
        [] fn = FnY ->
             IF has("a") /\ has("y")
               THEN Value([i \in 1..Len(y) |-> Flt(a * y[i])])
               ELSE Raised
        [] fn = FnRatio ->
             IF has("x")
               THEN Value([i \in 1..Len(x) |->
                             IF x[i] = 0 THEN NaN ELSE Flt(1)])
               ELSE Raised
        [] fn = FnList ->
             IF has("x") /\ \A i \in 1..Len(x) : x[i] # 0
               THEN Value([i \in 1..Len(x) |->
                      IF x[i] > 0 THEN Rat(1, x[i]) ELSE Rat(-1, -x[i])])
               ELSE Raised
        [] OTHER -> Raised

\* ----------------------------------------------------------------- state
VARIABLES
  values,        \* s.values: parameter name -> value
  function,      \* s.function
  variable,      \* s.variable
  fitRange,      \* s.fitRange
  xData, yData,  \* s.xData, s.yData: names of the datasets
  outExpr, chi2, dof, redchi2,   \* the read-only outputs
  doc,           \* the document: dataset name -> dataset
  plottedRange,  \* plotted range of the x axis and of the y axis
  pc,            \* where actionFit stands, or how its last call ended
  names, params, xvals, yvals, yserr,   \* locals of actionFit
  fit,           \* what utils.fitLM returned: [retn, chi2, dof]
  paramvals,     \* local of generateOutputExpr
  env, evalOut,  \* evalfunc's environment and what its last call gave
  iter,          \* calls of evalfunc made by the running solver
  calls,         \* calls of utils.fitLM made by the running actionFit
  diag,          \* what the running (or last) actionFit printed
  pre            \* the outputs and s.values as actionFit found them

vars == <<values, function, variable, fitRange, xData, yData, outExpr, chi2,
          dof, redchi2, doc, plottedRange, pc, names, params, xvals, yvals,
          yserr, fit, paramvals, env, evalOut, iter, calls, diag, pre>>

settings == <<function, variable, fitRange, xData, yData>>

outputs == <<values, outExpr, chi2, dof, redchi2>>

locals == <<names, params, xvals, yvals, yserr>>

Snapshot ==
  [values |-> values, outExpr |-> outExpr, chi2 |-> chi2, dof |-> dof,
   redchi2 |-> redchi2]

\* ------------------------------------------------------------ input sets
ParamNames == {<<"a">>, <<"b">>, <<"a", "b">>}

\* the value a parameter starts with (a: 0.0 and b: 1.0 are the defaults)
StartValue(n) == IF n = <<"a">> THEN 0 ELSE IF n = <<"b">> THEN 1 ELSE 2

Functions == {FnDefault, FnY, FnRatio, FnList}

Variables == {<<"x">>, <<"y">>}

DefaultNames == <<<<"x">>, <<"y">>>>

DataNames == {DefaultNames, <<<<"x", "d">>, <<"y", "d">>>>}

DataVals == {0, 20}

SErrVals == {2}

PErrVals == {1, 7}

NErrVals == {-1}

PlottedRanges == {<<10, 20>>, <<0, 10>>}

Arrays(V, k) == [1..k -> V]

OptArrays(V, k) ==
  {None} \cup (IF V = {} THEN {} ELSE {Some(a) : a \in Arrays(V, k)})

\* a dataset: values and the optional symmetric, positive and negative
\* errors, all of the length of the values
Datasets(V, S, P, N) ==
  UNION {[data : Arrays(V, k), serr : OptArrays(S, k),
          perr : OptArrays(P, k), nerr : OptArrays(N, k)] : k \in 0..MaxLen}

\* what a fitting object starts from: the parameters, the function, the
\* dataset names, the two datasets and the plotted ranges of the axes
DriverScenarios ==
  [keys : SUBSET ParamNames, fn : {FnDefault}, dn : {DefaultNames},
   dx : Datasets({0, 10}, {2}, {}, {}) , dy : Datasets({10}, {}, {}, {}),
   pr : {[x |-> <<10, 20>>, y |-> <<10, 20>>]}]

EvalScenarios ==
  [keys : {{<<"a">>, <<"b">>}, {<<"a">>}}, fn : Functions, dn : DataNames,
   dx : {d \in Datasets({0, 10}, {}, {}, {}) : Len(d.data) = MaxLen},
   dy : {d \in Datasets({10}, {}, {}, {}) : Len(d.data) = MaxLen},
   pr : {[x |-> <<10, 20>>, y |-> <<10, 20>>]}]

PrepScenarios ==
  [keys : {{<<"a">>, <<"b">>}}, fn : {FnDefault}, dn : {DefaultNames},
   dx : Datasets({10, 20}, {}, {}, {}),
   dy : Datasets(DataVals, SErrVals, PErrVals, NErrVals),
   pr : {[x |-> r, y |-> r] : r \in PlottedRanges}]

\* the values the solver tries and returns, and its chi-squares
TrialBase == {1, 5}

TrialVectors(k) == {[i \in 1..k |-> v + i] : v \in TrialBase}

ChiVals == {0, 10}

NoEnv == [called |-> FALSE, trial |-> <<>>, bound |-> <<>>]

NoEval == [raised |-> FALSE, scalar |-> TRUE, out |-> <<>>]

NoFit == [retn |-> <<>>, chi2 |-> -1, dof |-> -1]

Idle == pc \in {"Idle", "Done", "Aborted", "Raised"}

\* lines 43-80: a new Fit object over a document
InitWith(scenarios, vs, frs) ==
  /\ \E sc \in scenarios :
       /\ values = [n \in sc.keys |-> StartValue(n)]
       /\ function = sc.fn
       /\ xData = sc.dn[1] /\ yData = sc.dn[2]
       /\ doc = [n \in {sc.dn[1], sc.dn[2]} |->
                   IF n = sc.dn[1] THEN sc.dx ELSE sc.dy]
       /\ plottedRange = sc.pr
  /\ variable \in vs
  /\ fitRange \in frs
  /\ outExpr = <<>>
  /\ chi2 = -1
  /\ dof = -1
  /\ redchi2 = Flt(-1)
  /\ pc = "Idle"
  /\ names = <<>> /\ params = <<>>
  /\ xvals = <<>> /\ yvals = <<>> /\ yserr = <<>>
  /\ fit = NoFit
  /\ paramvals = <<>>
  /\ env = NoEnv /\ evalOut = NoEval
  /\ iter = 0 /\ calls = 0
  /\ diag = {}
  /\ pre = Snapshot

Init == InitWith(DriverScenarios \cup EvalScenarios, {<<"x">>}, {FALSE})

InitPrep == InitWith(PrepScenarios, Variables, BOOLEAN)

\* ------------------------------------------------------------- actionFit
\* lines 108-154: parameters, datasets, errors, range restriction
Prepare ==
  /\ Idle
  /\ \E ks \in Orders(DOMAIN values), sem \in MaskSemantics :
       LET nm == sort(ks)
           xv == IF variable = <<"x">> THEN doc[xData].data
                 ELSE doc[yData].data
           ydata == IF variable = <<"x">> THEN doc[yData] ELSE doc[xData]
           es == ErrorSynthesis(ydata)
           rr == IF fitRange
                   THEN RangeRestrict(variable, xv, ydata.data, es.yserr,
                                      plottedRange, sem)
                   ELSE [ok |-> TRUE, xvals |-> xv, yvals |-> ydata.data,
                         yserr |-> es.yserr]
       IN  /\ names' = nm
           /\ params' = [i \in 1..Len(nm) |-> values[nm[i]]]
           /\ xvals' = rr.xvals
           /\ yvals' = rr.yvals
           /\ yserr' = rr.yserr
           /\ diag' = es.warn \cup
                       (IF fitRange /\ rr.ok THEN {"info: fitting range"}
                        ELSE {})
           /\ pc' = IF rr.ok THEN "Preparing" ELSE "Raised"
  /\ pre' = Snapshot
  /\ fit' = NoFit
  /\ paramvals' = <<>>
  /\ env' = NoEnv /\ evalOut' = NoEval
  /\ iter' = 0 /\ calls' = 0
  /\ UNCHANGED <<settings, outputs, doc, plottedRange>>

\* Validate, were a failed check to reset the fit statistics
ValidateClearsOutputs ==
  /\ pc = "Preparing"
  /\ LET err == ErrorCheck(Len(params), xvals, yvals, yserr)
     IN  IF err = ""
           THEN /\ pc' = "Solving" /\ diag' = diag /\ calls' = calls + 1
                /\ UNCHANGED outputs
           ELSE /\ pc' = "Aborted" /\ diag' = diag \cup {err}
                /\ calls' = calls
                /\ chi2' = -1 /\ dof' = -1 /\ redchi2' = Flt(-1)
                /\ UNCHANGED <<values, outExpr>>
  /\ UNCHANGED <<settings, doc, plottedRange, locals, fit,
                 paramvals, env, evalOut, iter, pre>>

\* lines 156-168: the three error checks; past them utils.fitLM is called
Validate ==
  /\ pc = "Preparing"
  /\ LET err == ErrorCheck(Len(params), xvals, yvals, yserr)
     IN  IF err = ""
           THEN pc' = "Solving" /\ diag' = diag /\ calls' = calls + 1
           ELSE pc' = "Aborted" /\ diag' = diag \cup {err} /\ calls' = calls
  /\ UNCHANGED <<settings, outputs, doc, plottedRange, locals, fit,
                 paramvals, env, evalOut, iter, pre>>

\* evalfunc without its try/except
evalfuncNoCatch(pv, xv, ks) ==
  LET nm == sort(ks)
      k == Min(Len(nm), Len(pv))
      e == [n \in DOMAIN values \cup {variable} |->
              IF \E i \in 1..k : nm[i] = n
                THEN pv[CHOOSE i \in 1..k : nm[i] = n]
              ELSE IF n = variable THEN xv
              ELSE values[n]]
      r == Eval(function, e)
  IN  [env |-> e,
       out |-> [raised |-> r.raised, scalar |-> FALSE, out |-> r.out]]

\* lines 98-103 and 189-205: [env, out] of evalfunc(params, xvals)
evalfunc(pv, xv, ks) ==
  LET nm == sort(ks)
      k == Min(Len(nm), Len(pv))
      e == [n \in DOMAIN values \cup {variable} |->
              IF \E i \in 1..k : nm[i] = n
                THEN pv[CHOOSE i \in 1..k : nm[i] = n]
              ELSE IF n = variable THEN xv
              ELSE values[n]]
      r == Eval(function, e)
  IN  [env |-> e,
       out |-> IF r.raised
                 THEN [raised |-> FALSE, scalar |-> TRUE, out |-> <<NaN>>]
                 ELSE [raised |-> FALSE, scalar |-> FALSE, out |-> r.out]]

\* utils.fitLM calls the evaluator on a trial vector
SolverCall ==
  /\ pc = "Solving"
  /\ iter < MaxIter
  /\ \E tv \in TrialVectors(Len(params)) \cup {params},
        ks \in Orders(DOMAIN values) :
       LET r == evalfunc(tv, xvals, ks)
       IN  /\ env' = [called |-> TRUE, trial |-> tv, bound |-> r.env]
           /\ evalOut' = r.out
  /\ iter' = iter + 1
  /\ UNCHANGED <<settings, outputs, doc, plottedRange, locals, fit,
                 paramvals, pc, calls, diag, pre>>

\* utils.fitLM returns the refined vector, chi-square and degrees of freedom
SolverReturn ==
  /\ pc = "Solving"
  /\ \E rv \in TrialVectors(Len(params)), c \in ChiVals :
       fit' = [retn |-> rv, chi2 |-> c, dof |-> Len(xvals) - Len(params)]
  /\ env' = NoEnv /\ evalOut' = NoEval
  /\ iter' = 0
  /\ pc' = "Summarizing"
  /\ UNCHANGED <<settings, outputs, doc, plottedRange, locals, paramvals,
                 calls, diag, pre>>

\* Summarize, were the expression rendered before s.values is replaced
SummarizeStale ==
  /\ pc = "Summarizing"
  /\ values' = WriteBack(names, fit.retn)
  /\ chi2' = fit.chi2
  /\ dof' = fit.dof
  /\ redchi2' = ReducedChi2(fit.chi2, fit.dof)
  /\ diag' = diag \cup NoDofInfo(fit.dof)
  /\ paramvals' = ParamVals(values, variable, xData, yData)
  /\ outExpr' = generateOutputExpr(function, paramvals')
  /\ pc' = "Done"
  /\ UNCHANGED <<settings, doc, plottedRange, locals, fit, env, evalOut,
                 iter, calls, pre>>

\* lines 172-187 and 207-228
Summarize ==
  /\ pc = "Summarizing"
  /\ values' = WriteBack(names, fit.retn)
  /\ chi2' = fit.chi2
  /\ dof' = fit.dof
  /\ redchi2' = ReducedChi2(fit.chi2, fit.dof)
  /\ diag' = diag \cup NoDofInfo(fit.dof)
  /\ paramvals' = ParamVals(values', variable, xData, yData)
  /\ outExpr' = generateOutputExpr(function, paramvals')
  /\ pc' = "Done"
  /\ UNCHANGED <<settings, doc, plottedRange, locals, fit, env, evalOut,
                 iter, calls, pre>>

\* the user changes the settings between two fits
UserEdit ==
  /\ Idle
  /\ variable' \in Variables
  /\ fitRange' \in BOOLEAN
  /\ <<variable', fitRange'>> # <<variable, fitRange>>
  /\ pc' = "Idle"
  /\ names' = <<>> /\ params' = <<>>
  /\ xvals' = <<>> /\ yvals' = <<>> /\ yserr' = <<>>
  /\ fit' = NoFit
  /\ paramvals' = <<>>
  /\ env' = NoEnv /\ evalOut' = NoEval
  /\ iter' = 0 /\ calls' = 0
  /\ diag' = {}
  /\ pre' = Snapshot
  /\ UNCHANGED <<function, xData, yData, outputs, doc, plottedRange>>

Next ==
  \/ Prepare
  \/ Validate
  \/ SolverCall
  \/ SolverReturn
  \/ Summarize
  \/ UserEdit

Spec == Init /\ [][Next]_vars

\* the Observation Preparer alone, over the richer datasets
NextPrep ==
  \/ Prepare
  \/ Validate

SpecPrep == InitPrep /\ [][NextPrep]_vars

\* ------------------------------------------------------ claims: helpers
\* lexicographic rank of the parameter names the model uses
NameRank(n) ==
  CASE n = <<"a">> -> 1 [] n = <<"a", "b">> -> 2 [] n = <<"b">> -> 3
    [] OTHER -> 0

SortedNames(S) ==
  CHOOSE q \in Orders(S) :
    \A i, j \in 1..Cardinality(S) : i < j => NameRank(q[i]) < NameRank(q[j])

IndepName == IF variable = <<"x">> THEN xData ELSE yData

DepName == IF variable = <<"x">> THEN yData ELSE xData

IndepData == doc[IndepName].data

DepSet == doc[DepName]

AxisRange == IF variable = <<"x">> THEN plottedRange.x ELSE plottedRange.y

\* the entries of arr at the positions where key lies in [r[1], r[2]]
RECURSIVE KeepWhere(_, _, _, _)
KeepWhere(arr, key, r, i) ==
  IF i > Len(key) THEN <<>>
  ELSE (IF r[1] <= key[i] /\ key[i] <= r[2] THEN <<arr[i]>> ELSE <<>>)
       \o KeepWhere(arr, key, r, i + 1)

Errors ==
  {"error: no data values", "error: data not equal in length",
   "error: no degrees of freedom"}

Warnings == {"warning: symmetrising errors", "warning: assuming 5% errors"}

\* ------------------------------------------------------------------ C1
\* C1: an invocation that ends in a data error leaves the Parameter Set and
\* the four Fit Result fields as they were before the invocation.
C1_DataErrorLeavesOutputs ==
  (pc = "Aborted" /\ diag \cap Errors # {}) => Snapshot = pre

\* an abort for lack of degrees of freedom after an earlier successful fit
C1_Witness ==
  /\ pc = "Aborted"
  /\ "error: no degrees of freedom" \in diag
  /\ chi2 # -1

\* ------------------------------------------------------------------ C2
\* the range restriction raises however the array library indexes by a mask
RaisesEitherWay ==
  \A sem \in MaskSemantics :
    ~RangeRestrict(variable, IndepData, DepSet.data,
                   ErrorSynthesis(DepSet).yserr, plottedRange, sem).ok

\* C2: each validation condition ends the fit with a reported error and
\* without the solver being invoked, and no exception escapes the fit call,
\* with range restriction disabled or enabled.  (An exception that only one
\* of the two readings of mask indexing produces is not counted.)
C2_AbortsWithoutEscape ==
  /\ ~(pc = "Raised" /\ RaisesEitherWay)
  /\ pc \in {"Solving", "Summarizing", "Done"} =>
       ErrorCheck(Len(params), xvals, yvals, yserr) = ""
  /\ pc = "Aborted" => calls = 0 /\ diag \cap Errors # {}

\* ------------------------------------------------------------------ C3
\* C3: once a fit invocation has returned, the Parameter Set and the Fit
\* Result are all unchanged or all refreshed from one solver result, the
\* output expression rendered from the refreshed values; before the
\* refresh nothing has been written.
C3_AllOrNothing ==
  /\ pc \in {"Preparing", "Solving", "Summarizing", "Aborted", "Raised"} =>
       Snapshot = pre
  /\ pc = "Done" =>
       /\ DOMAIN values = {names[i] : i \in 1..Len(names)}
       /\ \A i \in 1..Len(names) : values[names[i]] = fit.retn[i]
       /\ chi2 = fit.chi2
       /\ dof = fit.dof
       /\ IF fit.dof > 0
            THEN redchi2.d > 0 /\ redchi2.n * fit.dof = fit.chi2 * redchi2.d
            ELSE redchi2 = Flt(-1)
       /\ outExpr =
            generateOutputExpr(function,
                               ParamVals(values, variable, xData, yData))

\* a second successful fit that moved the parameters
C3_Witness ==
  /\ pc = "Done"
  /\ pre.chi2 # -1
  /\ values # pre.values
  /\ outExpr # pre.outExpr

\* ------------------------------------------------------------------ C4
\* C4: with range restriction enabled, for either independent variable, the
\* points kept are exactly those whose independent value lies in the
\* plotted range of the independent variable's axis, in all three arrays.
C4_KeepsIndependentInRange ==
  (pc \in {"Preparing", "Aborted"} /\ fitRange
     /\ Len(IndepData) = Len(DepSet.data)) =>
    /\ xvals = KeepWhere(IndepData, IndepData, AxisRange, 1)
    /\ yvals = KeepWhere(DepSet.data, IndepData, AxisRange, 1)
    /\ yserr = KeepWhere(ErrorSynthesis(DepSet).yserr, IndepData, AxisRange, 1)

\* ------------------------------------------------------------------ C5
\* C5: in every reachable state the stored reduced chi-square is
\* chi-square / degrees of freedom when the stored degrees of freedom are
\* positive and -1 otherwise; a successful fit without degrees of freedom
\* also reports that.
C5_ReducedChi2 ==
  /\ dof > 0 => redchi2.d > 0 /\ redchi2.n * dof = chi2 * redchi2.d
  /\ dof <= 0 => redchi2 = Flt(-1)
  /\ (pc = "Done" /\ fit.dof <= 0) =>
       "info: no degrees of freedom in fit" \in diag

\* a fit with two degrees of freedom and chi-square 10: reduced 5
C5_Witness == pc = "Done" /\ dof = 2 /\ chi2 = 10 /\ redchi2 = Flt(5)

\* ------------------------------------------------------------------ C6
\* C6 as claimed: the substitution mapping sends the independent variable's
\* role name to the identifier of the dataset in the dependent role.
C6_MapsToDependent ==
  pc = "Done" =>
    /\ variable \in DOMAIN paramvals
    /\ paramvals[variable] = TextVal(DepName)

\* the text runs and separators of the functions, written out by hand
Tokens(fn) ==
  CASE fn = FnDefault ->
         <<<<"a">>, <<" ">>, <<>>, <<"+">>, <<>>, <<" ">>, <<"b">>, <<"*">>,
           <<"x">>>>
    [] fn = FnY -> <<<<"a">>, <<"*">>, <<"y">>>>
    [] fn = FnRatio -> <<<<"x">>, <<"/">>, <<"x">>>>
    [] fn = FnList ->
         <<<<"[">>, <<"1">>, <<"/">>, <<"v">>, <<" ">>, <<"f", "o", "r">>,
           <<" ">>, <<"v">>, <<" ">>, <<"i", "n">>, <<" ">>, <<"x">>,
           <<"]">>>>

ExpectedText ==
  LET t == Tokens(function)
  IN  Join([i \in 1..Len(t) |->
              IF t[i] = variable THEN IndepName
              ELSE IF t[i] \in DOMAIN values THEN FloatStr(values[t[i]])
              ELSE t[i]])

\* C6 amended: the mapping holds every parameter name with its value and
\* sends the independent variable's role name to the identifier of the
\* dataset in the independent role, which is what the rendered text shows
\* in place of the variable.
C6_MapsToIndependent ==
  pc = "Done" =>
    /\ variable \in DOMAIN paramvals
    /\ paramvals[variable] = TextVal(IndepName)
    /\ \A n \in DOMAIN values : paramvals[n] = FloatVal(values[n])
    /\ outExpr = ExpectedText

\* "a + b*x" fitted in x over the dataset "xd": the text ends in "xd"
C6_Witness ==
  /\ pc = "Done"
  /\ function = FnDefault
  /\ variable = <<"x">>
  /\ xData = <<"x", "d">>
  /\ DOMAIN values = {<<"a">>, <<"b">>}
  /\ outExpr = FloatStr(values[<<"a">>]) \o <<" ", "+", " ">>
                 \o FloatStr(values[<<"b">>]) \o <<"*", "x", "d">>

\* ------------------------------------------------------------------ C7
\* the names an expression reads, and the names evalfunc binds
Needs(fn) ==
  CASE fn = FnDefault -> {<<"a">>, <<"b">>, <<"x">>}
    [] fn = FnY -> {<<"a">>, <<"y">>}
    [] fn = FnRatio -> {<<"x">>}
    [] fn = FnList -> {<<"x">>}

Unbound == ~(Needs(function) \subseteq DOMAIN values \cup {variable})

\* the sample points at which the expression cannot be computed
PointFails(i) == Unbound \/ (function \in {FnRatio, FnList} /\ xvals[i] = 0)

\* evaluating the expression raises a Python error
ExprRaises ==
  Unbound \/ (function = FnList /\ \E i \in 1..Len(xvals) : xvals[i] = 0)

\* C7 as claimed: the evaluator never raises, and gives not-a-number for
\* exactly the failing points and finite values for all the others.
C7_NaNExactlyAtFailingPoints ==
  env.called =>
    /\ ~evalOut.raised
    /\ \A i \in 1..Len(xvals) :
         LET v == IF evalOut.scalar THEN evalOut.out[1] ELSE evalOut.out[i]
         IN  PointFails(i) <=> ~IsFinite(v)

\* C7 amended: the evaluator never raises; when evaluating the expression
\* raises, it returns one not-a-number for the whole evaluation, whatever
\* the number of failing points; otherwise it returns the expression's
\* array, not-a-number exactly where the element-wise operation is
\* undefined and finite at the other points.
C7_NaNForWholeEvaluation ==
  env.called =>
    /\ ~evalOut.raised
    /\ ExprRaises => evalOut.scalar /\ evalOut.out = <<NaN>>
    /\ ~ExprRaises =>
         /\ ~evalOut.scalar
         /\ Len(evalOut.out) = Len(xvals)
         /\ \A i \in 1..Len(xvals) :
              ~IsFinite(evalOut.out[i]) <=>
                (function = FnRatio /\ xvals[i] = 0)

\* a division by zero at one of two points: one not-a-number for both
C7_Witness ==
  /\ env.called
  /\ function = FnList
  /\ \E i, j \in 1..Len(xvals) : xvals[i] = 0 /\ xvals[j] # 0
  /\ evalOut.scalar

\* ------------------------------------------------------------------ C8
\* C8: equal-length arrays with n >= 1 points and p <= n parameters (p = n
\* included) do not abort: the fit goes Idle -> Preparing -> Solving ->
\* Summarizing -> Idle with the solver invoked exactly once, and Aborted is
\* entered from Preparing only, never after the solver was invoked.
C8_Step ==
  /\ (pc = "Preparing" /\ Len(xvals) >= 1 /\ Len(xvals) = Len(yvals)
        /\ Len(xvals) = Len(yserr) /\ Len(params) <= Len(xvals)) =>
       pc' = "Solving" /\ calls' = 1
  /\ pc' = "Preparing" => Idle /\ calls' = 0
  /\ pc' = "Solving" => pc \in {"Preparing", "Solving"} /\ calls' = 1
  /\ pc' = "Summarizing" => pc = "Solving" /\ calls' = 1
  /\ pc' = "Done" => pc = "Summarizing" /\ calls' = 1
  /\ pc' = "Aborted" => pc = "Preparing" /\ calls = 0 /\ calls' = 0
  /\ pc \in {"Solving", "Summarizing"} =>
       pc' \in {"Solving", "Summarizing", "Done"}

C8_NoAbortWhenFittable == [][C8_Step]_vars

\* a completed fit with as many parameters as points
C8_Witness ==
  /\ pc = "Done"
  /\ Len(xvals) >= 1
  /\ Len(params) = Len(xvals)
  /\ calls = 1

\* ------------------------------------------------------------------ C9
\* C9: the initial vector, the evaluator's binding of trial vectors and the
\* write-back all follow the lexicographically sorted parameter names:
\* entry i belongs to the i-th sorted name, and a successful fit keeps the
\* key set.
C9_SortedAlignment ==
  /\ pc \in {"Preparing", "Solving", "Summarizing"} =>
       /\ names = SortedNames(DOMAIN values)
       /\ \A i \in 1..Len(names) : params[i] = values[names[i]]
  /\ env.called =>
       \A i \in 1..Len(env.trial) :
         env.bound[SortedNames(DOMAIN values)[i]] = env.trial[i]
  /\ pc = "Done" =>
       /\ DOMAIN values = DOMAIN pre.values
       /\ Len(fit.retn) = Cardinality(DOMAIN values)
       /\ \A i \in 1..Len(fit.retn) :
            values[SortedNames(DOMAIN pre.values)[i]] = fit.retn[i]

\* two parameters written back from a vector of two different values
C9_Witness ==
  /\ pc = "Done"
  /\ DOMAIN values = {<<"a">>, <<"b">>}
  /\ values[<<"a">>] = fit.retn[1]
  /\ values[<<"b">>] = fit.retn[2]
  /\ fit.retn[1] # fit.retn[2]

\* ----------------------------------------------------------------- C10
\* C10, on the arrays before any range restriction: an explicit symmetric
\* error is used as it is, without a warning; else positive and negative
\* errors, when both exist, give the root of the mean of their squares,
\* with a warning; else the error is 5% of the value, raised to 1e-8 where
\* it is smaller, with a warning.
C10_WorkingError ==
  (pc \in {"Preparing", "Aborted"} /\ ~fitRange) =>
    LET yd == DepSet
    IN  IF yd.serr.some
          THEN /\ Len(yserr) = Len(yd.serr.a)
               /\ \A i \in 1..Len(yserr) :
                    yserr[i].d = 1 /\ yserr[i].n = yd.serr.a[i]
               /\ diag \cap Warnings = {}
        ELSE IF yd.perr.some /\ yd.nerr.some
          THEN /\ Len(yserr) = Len(yd.data)
               /\ \A i \in 1..Len(yserr) :
                    /\ yserr[i].n >= 0 /\ yserr[i].d > 0
                    /\ 2 * yserr[i].n * yserr[i].n =
                         (yd.perr.a[i] * yd.perr.a[i]
                          + yd.nerr.a[i] * yd.nerr.a[i])
                         * yserr[i].d * yserr[i].d
               /\ diag \cap Warnings = {"warning: symmetrising errors"}
        ELSE /\ Len(yserr) = Len(yd.data)
             /\ \A i \in 1..Len(yserr) :
                  IF yd.data[i] * 5000000 < 1
                    THEN yserr[i] = [n |-> 1, d |-> 100000000]
                    ELSE yserr[i].d > 0
                         /\ yserr[i].n * 20 = yd.data[i] * yserr[i].d
             /\ diag \cap Warnings = {"warning: assuming 5% errors"}

\* C10: the working error follows the three paths above, and no step of
\* the fit modifies the datasets of the document.
C10_ErrorPaths == []C10_WorkingError /\ [][doc' = doc]_vars

\* no errors at all on y = [0, 20]: 1e-8 for the first point, 1 for the second
C10_Witness ==
  /\ pc = "Preparing"
  /\ ~fitRange
  /\ ~DepSet.serr.some /\ ~DepSet.perr.some /\ ~DepSet.nerr.some
  /\ DepSet.data = <<0, 20>>
  /\ yserr = <<[n |-> 1, d |-> 100000000], [n |-> 1, d |-> 1]>>

====
